---- MODULE Spec2Model ----
(***************************************************************************)
(* Model of frappebr's transfer engine (core/transfer_manager.py):        *)
(* TransferProgress, TransferManager.download_backup and                  *)
(* TransferManager.resume_download, together with the BackupInfo record   *)
(* produced by BackupManager._parse_backup_info.                          *)
(*                                                                         *)
(* One remote artifact and one local destination path are modelled.      *)
(* Byte i of version v of the remote artifact is the pair <<v, i>>, so    *)
(* any two bytes differ and a copy that drops, repeats or reorders bytes  *)
(* is visible.  A file is the sequence of its bytes, written as runs: the *)
(* run [ver, lo, hi] stands for the bytes <<ver, lo>> .. <<ver, hi>>, and *)
(* adjacent runs that continue each other are merged, so two files are    *)
(* equal exactly when their run sequences are.  Sizes are real byte       *)
(* counts.  The remote artifact may be replaced between the steps of the  *)
(* engine, but not while a file channel is streaming it.                  *)
(*                                                                         *)
(* The grouping of backup files into sets (BackupManager.list_backup_sets, *)
(* TransferManager.get_local_backups and get_local_backup_sets) is a       *)
(* second system, GroupSpec: a listing is drawn and the functions are      *)
(* applied to it.  Of a BackupInfo and a BackupSet the fields filename,    *)
(* backup_type, created_at, size_mb, timestamp, total_size_mb and files    *)
(* are modelled.  TransferManager.upload_backup is a third system,         *)
(* UploadSpec, on the variables of the engine and a remote directory tree; *)
(* there the local file may be replaced between the steps of the engine,   *)
(* but not while it is streamed.  SSHManager's connection cache is a      *)
(* fourth system, SshSpec: its calls are made one after the other, and a   *)
(* connection stays open until close() is called on it; the body of an    *)
(* ssh_connection block is any sequence of its calls.  EngineSpec runs    *)
(* download_backup, resume_download and upload_backup of one              *)
(* TransferManager one after the other.  Each system leaves the variables *)
(* of the others as they are.                                              *)
(***************************************************************************)
EXTENDS Integers, Sequences, FiniteSets, TLC

\* ---------------------------------------------------------------- bounds
\* The remote artifact is replaced at most this many times.
MaxVersion == 1
\* Calls of download_backup and resume_download in one run.
MaxCalls == 2
\* Sizes, in bytes, the remote artifact takes: empty; one partial chunk, a
\* size that size_mb keeps (0.01 MB is 10485.76 bytes); three chunks, the
\* last one partial, a size that size_mb does not keep.
ArtifactSizes == {0, 10485, 70000}
\* Sizes at which an earlier, interrupted run may have left the local file.
CutPoints == {0, 1, 32768, 40000}

\* Records in one listing.
MaxRecords == 3
\* Modification times of the files of a listing.
Times == {1, 2}
\* The regular, readable files a backup directory may hold: of two backup
\* runs of one day, with and without the words the code looks for, with and
\* without a site between dashes, and a file that does not start with a
\* timestamp.
Filenames == {"20250101_000000_database.sql.gz",
              "20250101_000000_public.tar",
              "20250101_000000_config.tgz",
              "20250101_120000_dump.sql.gz",
              "20250101_000000-site1-database.sql.gz",
              "latest_backup.tar"}
\* Connections SSHManager opens in one run.
MaxClients == 3
\* The host identifiers connect is called with.
Hosts == {"h1", "h2"}
\* The remote paths upload_backup is given: without a directory, relative,
\* absolute.
RemotePaths == {"backup.tar", "in/backup.tar", "/srv/in/new/backup.tar"}
\* Its other entries: a subdirectory, and a regular file that cannot be
\* opened for reading.
DirectoryNames == {"old"}
UnreadableNames == {"20250101_120000_locked.tar"}

\* ------------------------------------------------------ program constants
chunk_size == 32768
max_retries == 3
MiB == 1048576

None == -1

VARIABLES
    remote,          \* the remote artifact: [ver, size]
    record,          \* the BackupInfo of the artifact: [size_mb100]
    localExists,     \* local_path.exists()
    localData,       \* the bytes of the local file (<<>> when absent)
    op,              \* the engine function that is running
    pc,              \* its position
    hasCallback,     \* progress_callback was passed
    local_size,      \* resume_download's local_size
    remote_size,     \* the size returned by _get_remote_file_size
    attempt,         \* download_backup's loop variable
    rpos,            \* read position of the open remote file
    progress,        \* the TransferProgress of the call
    refHeld,         \* the observer has received the progress object
    result,          \* "none" | "ok" (a path was returned) | "error"
    error,           \* the TransferError raised to the caller
    caught,          \* the exception caught by the running try block
    sftpOpen,        \* SFTP channels opened by the engine and not closed
    attempts,        \* history: transfer attempts started in this call
    startLocal,      \* history: the local file when resume_download began
    changed,         \* history: the remote was replaced during the call
    completion_size, \* history: remote size when the last transfer ended
    cancelled_at,    \* history: the local file's size at cancel()
    calls            \* history: calls made so far

transferVars ==
    <<remote, record, localExists, localData, op, pc, hasCallback,
      local_size, remote_size, attempt, rpos, progress, refHeld, result,
      error, caught, sftpOpen, attempts, startLocal,
      changed, completion_size, cancelled_at, calls>>

VARIABLES
    listing,         \* the files of the directory that is listed, in order
    gop,             \* the listing function that was applied
    gresult,         \* "none" | "ok" | "error" (the exception left it)
    local_backups,   \* get_local_backups: the items of the dict, in order
    backup_sets,     \* the BackupSets returned, in order
    backup_info,     \* get_backup_set_files' backup_info
    related_backups, \* the list get_backup_set_files returned
    keep_latest      \* cleanup_local_backups' keep_latest

groupVars == <<listing, gop, gresult, local_backups, backup_sets,
               backup_info, related_backups, keep_latest>>

VARIABLES
    remote_path,     \* upload_backup's remote_path
    remoteDirs,      \* the directories that exist on the remote host
    remoteFile,      \* the file at remote_path: [exists, data]
    sftpLog          \* history: the requests of _ensure_remote_directory

uploadVars == <<remote_path, remoteDirs, remoteFile, sftpLog>>

VARIABLES
    connections,     \* SSHManager.connections: host -> client, None if absent
    live,            \* the connections that are open: [id, host]
    nextClient,      \* history: connections opened so far
    ctx,             \* the ssh_connection block that is open, if any
    sshCall          \* history: the last call [fn, hostname, outcome, client,
                     \* exec, exit_code, value]

sshVars == <<connections, live, nextClient, ctx, sshCall>>

vars == <<transferVars, groupVars, uploadVars, sshVars>>

\* ---------------------------------------------------------------- helpers
Min(a, b) == IF a < b THEN a ELSE b

\* The first k bytes of the remote artifact r.
Prefix(r, k) == IF k = 0 THEN <<>> ELSE <<[ver |-> r.ver, lo |-> 1, hi |-> k]>>

\* The bytes of the remote artifact.
RemoteData(r) == Prefix(r, r.size)

\* The size of a file: st_size, len(chunk).
RECURSIVE FLen(_)
FLen(f) == IF f = <<>> THEN 0
           ELSE (f[1].hi - f[1].lo + 1) + FLen(Tail(f))

\* f is the first FLen(f) bytes of r.
IsPrefixOf(f, r) == FLen(f) <= r.size /\ f = Prefix(r, FLen(f))

\* file.write(bytes) at the end of f, for bytes of at most one run.
Write(f, bytes) ==
    IF bytes = <<>> THEN f
    ELSE IF f # <<>> /\ f[Len(f)].ver = bytes[1].ver
                     /\ f[Len(f)].hi + 1 = bytes[1].lo
    THEN [f EXCEPT ![Len(f)].hi = bytes[1].hi]
    ELSE f \o bytes

\* round(n / d) as Python rounds: to nearest, ties to even.
RoundHalfEven(n, d) ==
    LET q == n \div d
        r == n % d
    IN  IF 2 * r < d THEN q
        ELSE IF 2 * r > d THEN q + 1
        ELSE IF q % 2 = 0 THEN q ELSE q + 1

\* size_mb = round(size_bytes / (1024 * 1024), 2), in hundredths of a MB.
SizeMb100(size_bytes) == RoundHalfEven(size_bytes * 100, MiB)

\* int(backup_info.size_mb * 1024 * 1024)
RecordBytes(size_mb100) == (size_mb100 * MiB) \div 100

\* One read(chunk_size) of a remote file at position pos.
ReadChunk(r, pos) ==
    IF pos >= r.size THEN <<>>
    ELSE <<[ver |-> r.ver, lo |-> pos + 1, hi |-> Min(pos + chunk_size, r.size)]>>

\* Outcomes of the remote stat command.
StatOutcomes == {"ok", "nonzero", "garbage", "raised"}

_get_remote_file_size(outcome, size) == IF outcome = "ok" THEN size ELSE None

\* Mutant: the result of the query is not tested.
SizeUnavailable_never(size) == FALSE

\* download_backup, resume_download: if remote_size is None
SizeUnavailable(size) == size = None

\* Mutant: the size comparison is dropped.
_verify_download_exists_only(exists, data, expected_size) == exists

_verify_download(exists, data, expected_size) ==
    exists /\ FLen(data) = expected_size

\* Mutant: off by one, the last attempt also sleeps and goes round the loop.
ShouldRetry_off_by_one(a) == a < max_retries

\* except-branch of download_backup: another attempt follows.
ShouldRetry(a) == a < max_retries - 1

\* Mutant: a larger local file is not recognised.
AlreadyComplete_equal_only(l, r) == l = r

\* resume_download: local_size >= remote_size
AlreadyComplete(l, r) == l >= r

\* Mutant: the remote file is read from its start.
Seek_from_start(l) == 0

\* resume_download: remote_file.seek(local_size)
Seek(l) == l

\* Mutant: the flag is never looked at.
CancelObserved_never(p) == FALSE

\* resume_download: if progress.cancelled.is_set()
CancelObserved(p) == p.cancelled

\* TransferProgress.__init__
NewProgress(total) == [total_size |-> total, transferred |-> 0, cancelled |-> FALSE]

\* TransferProgress.update: the counter
Update(p, bytes_transferred) ==
    [p EXCEPT !.transferred = @ + bytes_transferred]

\* TransferProgress.update: the callback is invoked
Delivered(p, cb) == cb /\ ~p.cancelled

\* _download_file_with_progress.progress_callback: the delta passed to update
ProgressDelta(p, bytes_transferred) ==
    IF p.transferred = 0 THEN bytes_transferred
    ELSE bytes_transferred - p.transferred

\* Mutant: the except clauses let an exception of the channel pass as it is.
TransferError_channel_unwrapped(kind, cause) ==
    IF cause \in {"sftp", "io"} THEN [kind |-> "raw", cause |-> cause]
    ELSE [kind |-> kind, cause |-> cause]

\* raise TransferError(...), at a raise statement of the engine (kind) and,
\* in an except clause, around the exception e that was caught (cause).
TransferError(kind, cause) == [kind |-> kind, cause |-> cause]

NoError == [kind |-> "none", cause |-> "none"]
NoFile == [exists |-> FALSE, data |-> <<>>]

Idle == pc \in {"idle", "done"}
Streaming == pc \in {"dl_stream", "rs_read", "rs_check"}

\* ------------------------------------------------- filenames and grouping
\* Filenames are strings; the tests the code makes on them are computed on
\* their characters.
Digits == {"0", "1", "2", "3", "4", "5", "6", "7", "8", "9"}
UpperCase == "ABCDEFGHIJKLMNOPQRSTUVWXYZ"
LowerCase == "abcdefghijklmnopqrstuvwxyz"

CharAt(s, i) == SubSeq(s, i, i)

\* sub in s
Contains(s, sub) ==
    \E i \in 1..(Len(s) - Len(sub) + 1) : SubSeq(s, i, i + Len(sub) - 1) = sub

\* s.endswith(suffix)
EndsWith(s, suffix) ==
    /\ Len(s) >= Len(suffix)
    /\ SubSeq(s, Len(s) - Len(suffix) + 1, Len(s)) = suffix

UpperCaseLetters == {CharAt(UpperCase, i) : i \in 1..Len(UpperCase)}

LowerChar(c) ==
    IF c \in UpperCaseLetters
    THEN CharAt(LowerCase, CHOOSE i \in 1..Len(UpperCase) :
                               CharAt(UpperCase, i) = c)
    ELSE c

\* s.lower()
RECURSIVE Lower(_)
Lower(s) == IF s = "" THEN "" ELSE LowerChar(CharAt(s, 1)) \o Lower(Tail(s))

\* re.match(r'(\d{8}_\d{6})', filename) is not None
TimestampMatch(filename) ==
    /\ Len(filename) >= 15
    /\ \A i \in 1..8 : CharAt(filename, i) \in Digits
    /\ CharAt(filename, 9) = "_"
    /\ \A i \in 10..15 : CharAt(filename, i) \in Digits

\* Mutant: the key is the date alone.
Group1_date_only(filename) == SubSeq(filename, 1, 8)

\* timestamp_match.group(1), for a filename that matches
Group1(filename) == SubSeq(filename, 1, 15)

\* BackupManager._is_backup_file
_is_backup_file(filename) ==
    \E ext \in {".sql.gz", ".tar", ".tar.gz", ".tgz"} : EndsWith(filename, ext)

\* BackupManager._determine_backup_type
_determine_backup_type(filename) ==
    LET filename_lower == Lower(filename) IN
    IF Contains(filename_lower, "database") \/ EndsWith(filename_lower, ".sql.gz")
    THEN "database"
    ELSE IF Contains(filename_lower, "files")
              /\ ~Contains(filename_lower, "database")
    THEN "files"
    ELSE "complete"

\* TransferManager._determine_local_backup_type
_determine_local_backup_type(filename) ==
    LET filename_lower == Lower(filename) IN
    IF Contains(filename_lower, "database") \/ EndsWith(filename_lower, ".sql.gz")
    THEN "database"
    ELSE IF EndsWith(filename_lower, ".tar")
              /\ Contains(filename_lower, "private")
    THEN "private_files"
    ELSE IF EndsWith(filename_lower, ".tar") THEN "files"
    ELSE IF Contains(filename_lower, "config") THEN "config"
    ELSE "unknown"

\* Mutant: the list of a timestamp is started again for every record.
AddToGroup_overwrite(groups, timestamp, backup) ==
    IF \E i \in 1..Len(groups) : groups[i].timestamp = timestamp
    THEN LET i == CHOOSE j \in 1..Len(groups) : groups[j].timestamp = timestamp
         IN  [groups EXCEPT ![i].files = <<backup>>]
    ELSE Append(groups, [timestamp |-> timestamp, files |-> <<backup>>])

\* if timestamp not in backup_groups: backup_groups[timestamp] = []
\* backup_groups[timestamp].append(backup)
\* The dict is the sequence of its items, in insertion order.
AddToGroup(groups, timestamp, backup) ==
    IF \E i \in 1..Len(groups) : groups[i].timestamp = timestamp
    THEN LET i == CHOOSE j \in 1..Len(groups) : groups[j].timestamp = timestamp
         IN  [groups EXCEPT ![i].files = Append(@, backup)]
    ELSE Append(groups, [timestamp |-> timestamp, files |-> <<backup>>])

\* for backup in all_backups: the records that match are put in their group.
RECURSIVE GroupByTimestamp(_, _)
GroupByTimestamp(backups, groups) ==
    IF backups = <<>> THEN groups
    ELSE LET backup == Head(backups) IN
         GroupByTimestamp(Tail(backups),
             IF TimestampMatch(backup.filename)
             THEN AddToGroup(groups, Group1(backup.filename), backup)
             ELSE groups)

has_database(files) ==
    \E i \in 1..Len(files) : Contains(files[i].filename, "database")
has_files(files) ==
    \E i \in 1..Len(files) : EndsWith(files[i].filename, ".tar")
has_config(files) ==
    \E i \in 1..Len(files) : Contains(files[i].filename, "config")

\* list_backup_sets: the type of a set
RemoteSetType(files) ==
    IF has_database(files) /\ has_files(files) /\ has_config(files)
    THEN "complete"
    ELSE IF has_database(files) /\ ~has_files(files) THEN "database"
    ELSE IF has_files(files) /\ ~has_database(files) THEN "files"
    ELSE "mixed"

\* get_local_backup_sets: the type of a set
LocalSetType(files) ==
    IF has_database(files) /\ has_files(files) THEN "complete"
    ELSE IF has_database(files) /\ ~has_files(files) THEN "database"
    ELSE IF has_files(files) /\ ~has_database(files) THEN "files"
    ELSE "mixed"

\* sum(f.size_mb for f in backup_files), in hundredths
RECURSIVE TotalSize(_)
TotalSize(files) ==
    IF files = <<>> THEN 0 ELSE Head(files).size_mb100 + TotalSize(Tail(files))

\* max(f.created_at for f in backup_files)
LatestTime(files) ==
    CHOOSE t \in {files[i].created_at : i \in 1..Len(files)} :
        \A i \in 1..Len(files) : files[i].created_at <= t

\* BackupSet(timestamp=..., backup_type=..., created_at=latest_time, ...)
BackupSet(group, backup_type) ==
    [timestamp |-> group.timestamp,
     backup_type |-> backup_type,
     created_at |-> LatestTime(group.files),
     total_size_mb100 |-> TotalSize(group.files),
     files |-> group.files]

\* sorted(..., key=lambda x: x.created_at, reverse=True): newest first, and
\* elements with equal keys keep their order.
RECURSIVE SortNewestFirst(_)
SortNewestFirst(seq) ==
    IF seq = <<>> THEN <<>>
    ELSE LET last == seq[Len(seq)]
             front == SortNewestFirst(SubSeq(seq, 1, Len(seq) - 1))
             k == Cardinality({i \in 1..Len(front) :
                                 front[i].created_at >= last.created_at})
         IN  SubSeq(front, 1, k) \o <<last>> \o SubSeq(front, k + 1, Len(front))

\* BackupInfo of a remote file, as _parse_backup_info builds it.
RemoteBackupInfo(entry) ==
    [filename |-> entry.filename,
     backup_type |-> _determine_backup_type(entry.filename),
     created_at |-> entry.created_at,
     size_mb100 |-> entry.size_mb100]

\* BackupInfo of a local file, as get_local_backup_sets builds it.
LocalBackupInfo(entry) ==
    [filename |-> entry.filename,
     backup_type |-> _determine_local_backup_type(entry.filename),
     created_at |-> entry.created_at,
     size_mb100 |-> entry.size_mb100]

\* BackupManager.list_backup_sets on the list list_backups returned.
list_backup_sets(all_backups) ==
    LET backup_groups == GroupByTimestamp(all_backups, <<>>) IN
    SortNewestFirst([i \in 1..Len(backup_groups) |->
        BackupSet(backup_groups[i], RemoteSetType(backup_groups[i].files))])

\* TransferManager.get_local_backups on the entries of the directory, in the
\* order glob yields them: the items of the dict, or the exception of the
\* first regular file that cannot be read.
RECURSIVE get_local_backups(_)
get_local_backups(entries) ==
    IF entries = <<>> THEN [raised |-> FALSE, items |-> <<>>]
    ELSE LET entry == Head(entries)
             rest == get_local_backups(Tail(entries))
         IN  IF entry.kind = "dir" THEN rest
             ELSE IF entry.kind = "unreadable"
             THEN [raised |-> TRUE, items |-> <<>>]
             ELSE IF rest.raised THEN rest
             ELSE [raised |-> FALSE, items |-> <<entry>> \o rest.items]

\* TransferManager.get_local_backup_sets, from the BackupInfo objects it
\* builds: the items of the dict of sets, in insertion order.
LocalBackupSets(backups) ==
    LET backup_groups == GroupByTimestamp(backups, <<>>) IN
    [i \in 1..Len(backup_groups) |->
        BackupSet(backup_groups[i], LocalSetType(backup_groups[i].files))]

\* TransferManager.get_local_backup_sets on the dict get_local_backups
\* returned.
get_local_backup_sets(items) ==
    LocalBackupSets([i \in 1..Len(items) |-> LocalBackupInfo(items[i])])

\* s.startswith(prefix)
StartsWith(s, prefix) ==
    Len(s) >= Len(prefix) /\ SubSeq(s, 1, Len(prefix)) = prefix

\* len(filename.split('-')) >= 2
HasSecondPart(filename) == Contains(filename, "-")

\* filename.split('-')[1], for a filename with a '-'
SecondPart(filename) ==
    LET dashes == {i \in 1..Len(filename) : CharAt(filename, i) = "-"}
        first == CHOOSE i \in dashes : \A j \in dashes : i <= j
        later == {i \in dashes : i > first}
        last == IF later = {} THEN Len(filename)
                ELSE (CHOOSE i \in later : \A j \in later : i <= j) - 1
    IN  SubSeq(filename, first + 1, last)

\* for backup in all_backups: if backup.filename.startswith(...): append
RECURSIVE RelatedBackups(_, _)
RelatedBackups(all_backups, prefix) ==
    IF all_backups = <<>> THEN <<>>
    ELSE (IF StartsWith(Head(all_backups).filename, prefix)
          THEN <<Head(all_backups)>> ELSE <<>>)
            \o RelatedBackups(Tail(all_backups), prefix)

\* BackupManager.get_backup_set_files on a record and the list list_backups
\* returns: the list returned, or the IndexError of split('-')[1].
get_backup_set_files(info, all_backups) ==
    IF ~TimestampMatch(info.filename)
    THEN [raised |-> FALSE, files |-> <<info>>]
    ELSE IF ~HasSecondPart(info.filename)
    THEN [raised |-> TRUE, files |-> <<>>]
    ELSE LET timestamp == Group1(info.filename)
             site_prefix == SecondPart(info.filename)
             related == RelatedBackups(all_backups,
                                       timestamp \o "-" \o site_prefix)
         IN  [raised |-> FALSE,
              files |-> IF related # <<>> THEN related ELSE <<info>>]

\* sorted_backups[keep_latest:]
Drop(seq, n) == SubSeq(seq, n + 1, Len(seq))

\* TransferManager.cleanup_local_backups on the entries of the directory,
\* every unlink succeeding: the entries afterwards, or the exception of
\* get_local_backups.
cleanup_local_backups(entries, keep) ==
    LET scan == get_local_backups(entries) IN
    IF scan.raised THEN [raised |-> TRUE, entries |-> entries]
    ELSE IF Len(scan.items) <= keep
    THEN [raised |-> FALSE, entries |-> entries]
    ELSE LET sorted_backups == SortNewestFirst(scan.items)
             old == Drop(sorted_backups, keep)
             removed == {old[i].filename : i \in 1..Len(old)}
         IN  [raised |-> FALSE,
              entries |-> SelectSeq(entries,
                              LAMBDA e : e.filename \notin removed)]

\* ------------------------------------------------------------ remote paths
\* p.rfind('/') + 1
LastSlash(p) ==
    LET slashes == {i \in 1..Len(p) : CharAt(p, i) = "/"} IN
    IF slashes = {} THEN 0
    ELSE CHOOSE i \in slashes : \A j \in slashes : j <= i

\* head.rstrip('/')
RECURSIVE RStripSlash(_)
RStripSlash(head) ==
    IF head # "" /\ CharAt(head, Len(head)) = "/"
    THEN RStripSlash(SubSeq(head, 1, Len(head) - 1))
    ELSE head

\* os.path.dirname(p)
Dirname(p) ==
    LET head == SubSeq(p, 1, LastSlash(p)) IN
    IF head # "" /\ RStripSlash(head) # "" THEN RStripSlash(head) ELSE head

\* sftp.stat(remote_dir) does not raise FileNotFoundError: the working
\* directory, and every directory that was made.
DirExists(dirs, remote_dir) == remote_dir = "" \/ remote_dir \in dirs

\* Mutant: the parent directories are not looked at.
_ensure_remote_directory_no_parents(dirs, remote_dir) ==
    LET stat == [op |-> "stat", path |-> remote_dir]
        mkdir == [op |-> "mkdir", path |-> remote_dir]
    IN  IF DirExists(dirs, remote_dir)
        THEN [dirs |-> dirs, log |-> <<stat>>, raised |-> FALSE]
        ELSE IF DirExists(dirs, Dirname(remote_dir))
        THEN [dirs |-> dirs \cup {remote_dir}, log |-> <<stat, mkdir>>,
              raised |-> FALSE]
        ELSE [dirs |-> dirs, log |-> <<stat, mkdir>>, raised |-> TRUE]

\* TransferManager._ensure_remote_directory: the directories afterwards, the
\* requests made, and whether a request raised.  sftp.mkdir raises when the
\* parent of the directory does not exist.
RECURSIVE _ensure_remote_directory(_, _)
_ensure_remote_directory(dirs, remote_dir) ==
    LET stat == [op |-> "stat", path |-> remote_dir]
        mkdir == [op |-> "mkdir", path |-> remote_dir]
        parent_dir == Dirname(remote_dir)
    IN  IF DirExists(dirs, remote_dir)
        THEN [dirs |-> dirs, log |-> <<stat>>, raised |-> FALSE]
        ELSE LET up == IF parent_dir # "" /\ parent_dir # remote_dir
                       THEN _ensure_remote_directory(dirs, parent_dir)
                       ELSE [dirs |-> dirs, log |-> <<>>, raised |-> FALSE]
             IN  IF up.raised
                 THEN [up EXCEPT !.log = <<stat>> \o @]
                 ELSE IF DirExists(up.dirs, parent_dir)
                 THEN [dirs |-> up.dirs \cup {remote_dir},
                       log |-> <<stat>> \o up.log \o <<mkdir>>,
                       raised |-> FALSE]
                 ELSE [dirs |-> up.dirs,
                       log |-> <<stat>> \o up.log \o <<mkdir>>,
                       raised |-> TRUE]

\* The local file as the source of a transfer: its version and size.
LocalArtifact(data) ==
    IF data = <<>> THEN [ver |-> 0, size |-> 0]
    ELSE [ver |-> data[1].ver, size |-> FLen(data)]

\* ------------------------------------------------------------- SSHManager
\* Mutant: the cache is not consulted.
IsCached_never(conns, hostname) == FALSE

\* connect: if hostname in self.connections
IsCached(conns, hostname) == conns[hostname] # None

\* What client.connect(**connect_kwargs) and the configuration lookup do.
ConnectOutcomes == {"ok", "no_config", "auth_failed", "ssh_error", "error"}

\* Mutant: the client is put in the cache before client.connect is called.
connect_caches_before_connecting(conns, open, opened, hostname, outcome) ==
    IF IsCached(conns, hostname)
    THEN [connections |-> conns, live |-> open, nextClient |-> opened,
          outcome |-> "ok", client |-> conns[hostname]]
    ELSE IF outcome = "ok"
    THEN LET client == opened + 1 IN
         [connections |-> [conns EXCEPT ![hostname] = client],
          live |-> open \cup {[id |-> client, host |-> hostname]},
          nextClient |-> client,
          outcome |-> "ok", client |-> client]
    ELSE IF outcome = "no_config"
    THEN [connections |-> conns, live |-> open, nextClient |-> opened,
          outcome |-> "error", client |-> None]
    ELSE [connections |-> [conns EXCEPT ![hostname] = opened + 1],
          live |-> open, nextClient |-> opened,
          outcome |-> "error", client |-> None]

\* SSHManager.connect(hostname): the cache and the open connections
\* afterwards, and the client returned (None when SSHConnectionError is
\* raised).
connect(conns, open, opened, hostname, outcome) ==
    IF IsCached(conns, hostname)
    THEN [connections |-> conns, live |-> open, nextClient |-> opened,
          outcome |-> "ok", client |-> conns[hostname]]
    ELSE IF outcome = "ok"
    THEN LET client == opened + 1 IN
         [connections |-> [conns EXCEPT ![hostname] = client],
          live |-> open \cup {[id |-> client, host |-> hostname]},
          nextClient |-> client,
          outcome |-> "ok", client |-> client]
    ELSE [connections |-> conns, live |-> open, nextClient |-> opened,
          outcome |-> "error", client |-> None]

\* SSHManager.disconnect(hostname): close the client and delete the entry.
disconnect(conns, open, hostname) ==
    IF IsCached(conns, hostname)
    THEN [connections |-> [conns EXCEPT ![hostname] = None],
          live |-> {c \in open : c.id # conns[hostname]}]
    ELSE [connections |-> conns, live |-> open]

\* Mutant: the context closes its client whenever it is left.
ShouldClose_always(conns, hostname) == TRUE

\* ssh_connection, finally: if client and hostname not in self.connections
ShouldClose(conns, hostname) == ~IsCached(conns, hostname)

\* Exit codes of a remote command.
ExitCodes == {0, 1, 2}

\* What client.exec_command and recv_exit_status do: an exception, or the
\* exit code of the command.
Runs == {[raised |-> TRUE, exit_code |-> None]}
            \cup [raised : {FALSE}, exit_code : ExitCodes]

\* SSHManager.execute_command after connect ended with outcome connected:
\* the exit code returned, or SSHConnectionError.
execute_command(connected, run) ==
    IF connected = "ok" /\ ~run.raised THEN run
    ELSE [raised |-> TRUE, exit_code |-> None]

\* Mutant: the probe has no except clause.
file_exists_no_except(exec) ==
    IF exec.raised THEN "raised"
    ELSE IF exec.exit_code = 0 THEN "True" ELSE "False"

\* SSHManager.file_exists, from what execute_command did.
file_exists(exec) ==
    IF exec.raised THEN "False"
    ELSE IF exec.exit_code = 0 THEN "True" ELSE "False"

\* SSHManager.test_connection, from what connect and exec_command did.
test_connection(connected, run) ==
    IF connected # "ok" \/ run.raised THEN "False"
    ELSE IF run.exit_code = 0 THEN "True" ELSE "False"

\* No command was run by the call.
NoRun == [exec |-> "none", exit_code |-> None]

\* What became of the command of the call.
Ran(exec) == [exec |-> IF exec.raised THEN "raised" ELSE "exited",
              exit_code |-> exec.exit_code]

\* The record of a call.
Call(fn, hostname, outcome, client, ran, value) ==
    [fn |-> fn, hostname |-> hostname, outcome |-> outcome, client |-> client,
     exec |-> ran.exec, exit_code |-> ran.exit_code, value |-> value]

NoContext == [hostname |-> "none", client |-> None]

\* No call has been made: self.connections = {}
SshReset ==
    /\ connections = [h \in Hosts |-> None]
    /\ live = {}
    /\ nextClient = 0
    /\ ctx = NoContext
    /\ sshCall = Call("none", "none", "none", None, NoRun, "none")

\* ------------------------------------------------------------------- Init
\* No record was passed.
NoRecord == [filename |-> "", backup_type |-> "", created_at |-> 0,
             size_mb100 |-> 0]

\* No listing function has been applied.
GroupReset ==
    /\ gop = "none"
    /\ gresult = "none"
    /\ local_backups = <<>>
    /\ backup_sets = <<>>
    /\ backup_info = NoRecord
    /\ related_backups = <<>>
    /\ keep_latest = None

\* upload_backup has not been called; the remote host has its root.
UploadReset ==
    /\ remote_path = ""
    /\ remoteFile = NoFile
    /\ sftpLog = <<>>

\* No engine call has been made.
TransferReset ==
    /\ op = "none"
    /\ pc = "idle"
    /\ hasCallback = FALSE
    /\ local_size = 0
    /\ remote_size = None
    /\ attempt = 0
    /\ rpos = 0
    /\ progress = NewProgress(0)
    /\ refHeld = FALSE
    /\ result = "none"
    /\ error = NoError
    /\ caught = "none"
    /\ sftpOpen = 0
    /\ attempts = 0
    /\ startLocal = NoFile
    /\ changed = FALSE
    /\ completion_size = None
    /\ cancelled_at = None
    /\ calls = 0

Init ==
    /\ \E n \in ArtifactSizes : remote = [ver |-> 0, size |-> n]
    /\ record = [size_mb100 |-> SizeMb100(remote.size)]
    /\ \E k \in {None, remote.size} \cup {c \in CutPoints : c < remote.size} :
          /\ localExists = (k # None)
          /\ localData = IF k = None THEN <<>> ELSE Prefix(remote, k)
    /\ TransferReset
    /\ listing = <<>>
    /\ GroupReset
    /\ remoteDirs = {"/"}
    /\ UploadReset
    /\ SshReset

\* --------------------------------------------------------- shared fragments
Raise(kind, cause) ==
    /\ pc' = "done"
    /\ result' = "error"
    /\ error' = TransferError(kind, cause)

Return ==
    /\ pc' = "done"
    /\ result' = "ok"
    /\ error' = NoError

\* What every call resets on entry.
EnterCall(cb) ==
    /\ calls < MaxCalls
    /\ calls' = calls + 1
    /\ hasCallback' = cb
    /\ remote_size' = None
    /\ attempt' = 0
    /\ rpos' = 0
    /\ progress' = NewProgress(0)
    /\ refHeld' = FALSE
    /\ caught' = "none"
    /\ attempts' = 0
    /\ changed' = FALSE
    /\ completion_size' = None
    /\ cancelled_at' = None
    /\ UNCHANGED <<remote, record, localExists, localData, sftpOpen>>

\* download_backup up to the remote size query: the short-circuit.
EnterDownload ==
    /\ op' = "download"
    /\ IF localExists /\ FLen(localData) = RecordBytes(record.size_mb100)
       THEN Return
       ELSE /\ pc' = "dl_size"
            /\ result' = "none"
            /\ error' = NoError

\* ---------------------------------------------------------- the environment
\* BackupManager._parse_backup_info: the artifact is listed again.
ParseBackupInfo ==
    /\ Idle
    /\ record' = [size_mb100 |-> SizeMb100(remote.size)]
    /\ record' # record
    /\ UNCHANGED <<remote, localExists, localData, op, pc, hasCallback,
                   local_size, remote_size, attempt, rpos, progress, refHeld,
                   result, error, caught, sftpOpen, attempts, startLocal,
                   changed, completion_size, cancelled_at, calls>>

\* The remote artifact is replaced by another one.
RemoteChange ==
    /\ ~Streaming
    /\ remote.ver < MaxVersion
    /\ \E n \in ArtifactSizes : remote' = [ver |-> remote.ver + 1, size |-> n]
    /\ changed' = TRUE
    /\ UNCHANGED <<record, localExists, localData, op, pc, hasCallback,
                   local_size, remote_size, attempt, rpos, progress, refHeld,
                   result, error, caught, sftpOpen, attempts, startLocal,
                   completion_size, cancelled_at, calls>>

\* TransferProgress.cancel, by a holder of the reference.
Cancel ==
    /\ ~Idle
    /\ refHeld
    /\ ~progress.cancelled
    /\ progress' = [progress EXCEPT !.cancelled = TRUE]
    /\ cancelled_at' = FLen(localData)
    /\ UNCHANGED <<remote, record, localExists, localData, op, pc,
                   hasCallback, local_size, remote_size, attempt, rpos,
                   refHeld, result, error, caught, sftpOpen, attempts,
                   startLocal, changed, completion_size, calls>>

\* --------------------------------------------------------- download_backup
DownloadCall ==
    /\ Idle
    /\ \E cb \in BOOLEAN : EnterCall(cb)
    /\ local_size' = 0
    /\ startLocal' = NoFile
    /\ EnterDownload

\* remote_size = self._get_remote_file_size(...); progress = TransferProgress(...)
DlSize ==
    /\ pc = "dl_size"
    /\ \E outcome \in StatOutcomes :
          /\ remote_size' = _get_remote_file_size(outcome, remote.size)
          /\ IF SizeUnavailable(remote_size')
             THEN /\ Raise("size_unavailable", "none")
                  /\ UNCHANGED progress
             ELSE /\ progress' = NewProgress(remote_size')
                  /\ pc' = "dl_attempt"
                  /\ UNCHANGED <<result, error>>
    /\ UNCHANGED <<remote, record, localExists, localData, op, hasCallback,
                   local_size, attempt, rpos, refHeld, caught, sftpOpen,
                   attempts, startLocal, changed, completion_size,
                   cancelled_at, calls>>

\* try: sftp = get_sftp_client(hostname); sftp.get(...) opens the local file
\* for writing, stats and opens the remote file.
DlAttempt ==
    /\ pc = "dl_attempt"
    /\ attempts' = attempts + 1
    /\ \E outcome \in {"no_channel", "no_remote", "ok"} :
          /\ IF outcome = "no_channel"
             THEN UNCHANGED <<localExists, localData, sftpOpen>>
             ELSE /\ localExists' = TRUE
                  /\ localData' = <<>>
                  /\ sftpOpen' = sftpOpen + 1
          /\ IF outcome = "ok"
             THEN /\ pc' = "dl_stream"
                  /\ UNCHANGED caught
             ELSE /\ pc' = "dl_except"
                  /\ caught' = "sftp"
    /\ rpos' = 0
    /\ UNCHANGED <<remote, record, op, hasCallback, local_size, remote_size,
                   attempt, progress, refHeld, result, error, startLocal,
                   changed, completion_size, cancelled_at, calls>>

\* One reader.read() of sftp.get: a chunk is written and reported, the end of
\* the file ends the transfer, or the channel fails.
DlRead ==
    /\ pc = "dl_stream"
    /\ \E fails \in BOOLEAN :
        LET chunk == ReadChunk(remote, rpos) IN
        IF fails
        THEN /\ pc' = "dl_except"
             /\ caught' = "sftp"
             /\ UNCHANGED <<localData, rpos, progress, refHeld, sftpOpen,
                            completion_size>>
        ELSE IF chunk = <<>>
        THEN /\ pc' = "dl_verify"
             /\ sftpOpen' = sftpOpen - 1
             /\ completion_size' = remote.size
             /\ UNCHANGED <<localData, rpos, progress, refHeld, caught>>
        ELSE /\ localData' = Write(localData, chunk)
             /\ rpos' = rpos + FLen(chunk)
             /\ progress' = Update(progress, ProgressDelta(progress, rpos'))
             /\ refHeld' = (refHeld \/ Delivered(progress, hasCallback))
             /\ UNCHANGED <<pc, sftpOpen, completion_size, caught>>
    /\ UNCHANGED <<remote, record, localExists, op, hasCallback, local_size,
                   remote_size, attempt, result, error, attempts, startLocal,
                   changed, cancelled_at, calls>>

\* if self._verify_download(local_path, remote_size): return ... else: raise
DlVerify ==
    /\ pc = "dl_verify"
    /\ IF _verify_download(localExists, localData, remote_size)
       THEN /\ Return
            /\ UNCHANGED caught
       ELSE /\ pc' = "dl_except"
            /\ caught' = "verify"
            /\ UNCHANGED <<result, error>>
    /\ UNCHANGED <<remote, record, localExists, localData, op, hasCallback,
                   local_size, remote_size, attempt, rpos, progress, refHeld,
                   sftpOpen, attempts, startLocal, changed, completion_size,
                   cancelled_at, calls>>

\* except Exception as e: sleep before the next attempt, or raise.
DlExcept ==
    /\ pc = "dl_except"
    /\ IF ShouldRetry(attempt)
       THEN /\ pc' = "dl_unlink"
            /\ UNCHANGED <<result, error>>
       ELSE Raise("exhausted", caught)
    /\ UNCHANGED <<remote, record, localExists, localData, op, hasCallback,
                   local_size, remote_size, attempt, rpos, progress, refHeld,
                   caught, sftpOpen, attempts, startLocal, changed,
                   completion_size, cancelled_at, calls>>

\* After the sleep: remove the partial file; the loop goes on or runs out.
DlUnlink ==
    /\ pc = "dl_unlink"
    /\ localExists' = FALSE
    /\ localData' = <<>>
    /\ attempt' = attempt + 1
    /\ IF attempt' < max_retries
       THEN /\ pc' = "dl_attempt"
            /\ UNCHANGED <<result, error>>
       ELSE Raise("download_failed", "none")
    /\ UNCHANGED <<remote, record, op, hasCallback, local_size, remote_size,
                   rpos, progress, refHeld, caught, sftpOpen, attempts,
                   startLocal, changed, completion_size, cancelled_at, calls>>

\* --------------------------------------------------------- resume_download
ResumeCall ==
    /\ Idle
    /\ \E cb \in BOOLEAN : EnterCall(cb)
    /\ IF ~localExists
       THEN /\ EnterDownload
            /\ local_size' = 0
            /\ startLocal' = NoFile
       ELSE /\ op' = "resume"
            /\ startLocal' = [exists |-> localExists, data |-> localData]
            /\ local_size' = FLen(localData)
            /\ pc' = "rs_size"
            /\ result' = "none"
            /\ error' = NoError

\* remote_size = self._get_remote_file_size(...) and the size comparison.
RsSize ==
    /\ pc = "rs_size"
    /\ \E outcome \in StatOutcomes :
          /\ remote_size' = _get_remote_file_size(outcome, remote.size)
          /\ IF SizeUnavailable(remote_size')
             THEN /\ Raise("size_unavailable", "none")
                  /\ UNCHANGED progress
             ELSE IF AlreadyComplete(local_size, remote_size')
             THEN /\ IF local_size = remote_size'
                     THEN Return
                     ELSE Raise("local_larger", "none")
                  /\ UNCHANGED progress
             ELSE /\ progress' = [NewProgress(remote_size')
                                    EXCEPT !.transferred = local_size]
                  /\ pc' = "rs_open"
                  /\ UNCHANGED <<result, error>>
    /\ UNCHANGED <<remote, record, localExists, localData, op, hasCallback,
                   local_size, attempt, rpos, refHeld, caught, sftpOpen,
                   attempts, startLocal, changed, completion_size,
                   cancelled_at, calls>>

\* try: sftp = get_sftp_client(); open(local_path, 'ab'); sftp.file(...);
\* remote_file.seek(local_size)
RsOpen ==
    /\ pc = "rs_open"
    /\ attempts' = attempts + 1
    /\ \E outcome \in {"no_channel", "no_remote", "ok"} :
          /\ IF outcome = "no_channel"
             THEN UNCHANGED sftpOpen
             ELSE sftpOpen' = sftpOpen + 1
          /\ IF outcome = "ok"
             THEN /\ pc' = "rs_read"
                  /\ rpos' = Seek(local_size)
                  /\ UNCHANGED <<result, error, caught>>
             ELSE /\ caught' = "io"
                  /\ Raise("resume_failed", "io")
                  /\ UNCHANGED rpos
    /\ UNCHANGED <<remote, record, localExists, localData, op, hasCallback,
                   local_size, remote_size, attempt, progress, refHeld,
                   startLocal, changed, completion_size, cancelled_at, calls>>

\* chunk = remote_file.read(self.chunk_size); if not chunk: break;
\* local_file.write(chunk); progress.update(len(chunk))
RsRead ==
    /\ pc = "rs_read"
    /\ \E fails \in BOOLEAN :
        LET chunk == ReadChunk(remote, rpos) IN
        IF fails
        THEN /\ caught' = "io"
             /\ Raise("resume_failed", "io")
             /\ UNCHANGED <<localData, rpos, progress, refHeld, sftpOpen,
                            completion_size>>
        ELSE IF chunk = <<>>
        THEN /\ pc' = "rs_verify"
             /\ sftpOpen' = sftpOpen - 1
             /\ completion_size' = remote.size
             /\ UNCHANGED <<localData, rpos, progress, refHeld, caught,
                            result, error>>
        ELSE /\ localData' = Write(localData, chunk)
             /\ rpos' = rpos + FLen(chunk)
             /\ progress' = Update(progress, FLen(chunk))
             /\ refHeld' = (refHeld \/ Delivered(progress, hasCallback))
             /\ pc' = "rs_check"
             /\ UNCHANGED <<sftpOpen, completion_size, caught, result, error>>
    /\ UNCHANGED <<remote, record, localExists, op, hasCallback, local_size,
                   remote_size, attempt, attempts, startLocal, changed,
                   cancelled_at, calls>>

\* if progress.cancelled.is_set(): raise TransferError(...)
RsCheck ==
    /\ pc = "rs_check"
    /\ IF CancelObserved(progress)
       THEN /\ caught' = "cancelled"
            /\ Raise("resume_failed", "cancelled")
       ELSE /\ pc' = "rs_read"
            /\ UNCHANGED <<caught, result, error>>
    /\ UNCHANGED <<remote, record, localExists, localData, op, hasCallback,
                   local_size, remote_size, attempt, rpos, progress, refHeld,
                   sftpOpen, attempts, startLocal, changed, completion_size,
                   cancelled_at, calls>>

\* if self._verify_download(local_path, remote_size): return ... else: raise
RsVerify ==
    /\ pc = "rs_verify"
    /\ IF _verify_download(localExists, localData, remote_size)
       THEN /\ Return
            /\ UNCHANGED caught
       ELSE /\ caught' = "verify"
            /\ Raise("resume_failed", "verify")
    /\ UNCHANGED <<remote, record, localExists, localData, op, hasCallback,
                   local_size, remote_size, attempt, rpos, progress, refHeld,
                   sftpOpen, attempts, startLocal, changed, completion_size,
                   cancelled_at, calls>>

\* ------------------------------------------------------------------- Next
Next ==
    \/ ParseBackupInfo /\ UNCHANGED <<groupVars, uploadVars, sshVars>>
    \/ RemoteChange /\ UNCHANGED <<groupVars, uploadVars, sshVars>>
    \/ Cancel /\ UNCHANGED <<groupVars, uploadVars, sshVars>>
    \/ DownloadCall /\ UNCHANGED <<groupVars, uploadVars, sshVars>>
    \/ DlSize /\ UNCHANGED <<groupVars, uploadVars, sshVars>>
    \/ DlAttempt /\ UNCHANGED <<groupVars, uploadVars, sshVars>>
    \/ DlRead /\ UNCHANGED <<groupVars, uploadVars, sshVars>>
    \/ DlVerify /\ UNCHANGED <<groupVars, uploadVars, sshVars>>
    \/ DlExcept /\ UNCHANGED <<groupVars, uploadVars, sshVars>>
    \/ DlUnlink /\ UNCHANGED <<groupVars, uploadVars, sshVars>>
    \/ ResumeCall /\ UNCHANGED <<groupVars, uploadVars, sshVars>>
    \/ RsSize /\ UNCHANGED <<groupVars, uploadVars, sshVars>>
    \/ RsOpen /\ UNCHANGED <<groupVars, uploadVars, sshVars>>
    \/ RsRead /\ UNCHANGED <<groupVars, uploadVars, sshVars>>
    \/ RsCheck /\ UNCHANGED <<groupVars, uploadVars, sshVars>>
    \/ RsVerify /\ UNCHANGED <<groupVars, uploadVars, sshVars>>

Spec == Init /\ [][Next]_vars


\* ------------------------------------------------------------ the listings
ListedSizes == {70000}

\* An entry of a directory that is listed.  The time of a subdirectory and
\* of a file that cannot be read is used by no function.
Entries ==
    LET entries(names, kind, times) ==
            [filename : names, kind : {kind}, created_at : times,
             size_mb100 : {SizeMb100(n) : n \in ListedSizes}]
    IN  entries(Filenames, "file", Times)
           \cup entries(DirectoryNames, "dir", {1})
           \cup entries(UnreadableNames, "unreadable", {1})

\* The directories: at most MaxRecords entries, no name twice.
Listings ==
    {l \in UNION {[1..n -> Entries] : n \in 0..MaxRecords} :
        \A i, j \in 1..Len(l) : l[i].filename = l[j].filename => i = j}

\* What list_backups returns: the backup files, their stat succeeded, sorted
\* newest first.
IsListBackupsOutput(l) ==
    /\ \A i \in 1..Len(l) : /\ l[i].kind = "file"
                            /\ _is_backup_file(l[i].filename)
    /\ l = SortNewestFirst(l)

GroupInit ==
    /\ remote = [ver |-> 0, size |-> 0]
    /\ record = [size_mb100 |-> 0]
    /\ localExists = FALSE
    /\ localData = <<>>
    /\ TransferReset
    /\ listing \in Listings
    /\ GroupReset
    /\ remoteDirs = {"/"}
    /\ UploadReset
    /\ SshReset

\* BackupManager.list_backup_sets
ListBackupSets ==
    /\ gop = "none"
    /\ IsListBackupsOutput(listing)
    /\ gop' = "list_backup_sets"
    /\ backup_sets' = list_backup_sets(
           [i \in 1..Len(listing) |-> RemoteBackupInfo(listing[i])])
    /\ gresult' = "ok"
    /\ UNCHANGED <<listing, local_backups, backup_info, related_backups,
                   keep_latest>>

\* TransferManager.get_local_backups
GetLocalBackups ==
    /\ gop = "none"
    /\ gop' = "get_local_backups"
    /\ LET scan == get_local_backups(listing) IN
          /\ gresult' = IF scan.raised THEN "error" ELSE "ok"
          /\ local_backups' = scan.items
    /\ UNCHANGED <<listing, backup_sets, backup_info, related_backups,
                   keep_latest>>

\* TransferManager.get_local_backup_sets
GetLocalBackupSets ==
    /\ gop = "none"
    /\ gop' = "get_local_backup_sets"
    /\ LET scan == get_local_backups(listing) IN
          /\ gresult' = IF scan.raised THEN "error" ELSE "ok"
          /\ local_backups' = scan.items
          /\ backup_sets' = IF scan.raised THEN <<>>
                            ELSE get_local_backup_sets(scan.items)
    /\ UNCHANGED <<listing, backup_info, related_backups, keep_latest>>

\* The records get_backup_set_files is called with: of a backup file that
\* is, or is no longer, in the directory.
BackupRecords ==
    {RemoteBackupInfo(e) :
        e \in {x \in Entries : x.kind = "file" /\ _is_backup_file(x.filename)}}

\* BackupManager.get_backup_set_files
GetBackupSetFiles ==
    /\ gop = "none"
    /\ IsListBackupsOutput(listing)
    /\ gop' = "get_backup_set_files"
    /\ LET all_backups == [i \in 1..Len(listing) |->
                              RemoteBackupInfo(listing[i])]
       IN  \E info \in BackupRecords :
             LET r == get_backup_set_files(info, all_backups) IN
             /\ backup_info' = info
             /\ gresult' = IF r.raised THEN "error" ELSE "ok"
             /\ related_backups' = r.files
    /\ UNCHANGED <<listing, local_backups, backup_sets, keep_latest>>

\* TransferManager.cleanup_local_backups
CleanupLocalBackups ==
    /\ gop = "none"
    /\ gop' = "cleanup_local_backups"
    /\ \E n \in 0..MaxRecords :
          LET r == cleanup_local_backups(listing, n) IN
          /\ keep_latest' = n
          /\ gresult' = IF r.raised THEN "error" ELSE "ok"
          /\ listing' = r.entries
    /\ UNCHANGED <<local_backups, backup_sets, backup_info, related_backups>>

GroupNext ==
    \/ ListBackupSets /\ UNCHANGED <<transferVars, uploadVars, sshVars>>
    \/ GetLocalBackups /\ UNCHANGED <<transferVars, uploadVars, sshVars>>
    \/ GetLocalBackupSets /\ UNCHANGED <<transferVars, uploadVars, sshVars>>
    \/ GetBackupSetFiles /\ UNCHANGED <<transferVars, uploadVars, sshVars>>
    \/ CleanupLocalBackups /\ UNCHANGED <<transferVars, uploadVars, sshVars>>

GroupSpec == GroupInit /\ [][GroupNext]_vars

\* ----------------------------------------------------------- upload_backup
\* The directory trees of the remote host: every directory has its parent.
DirectoryTrees ==
    {{"/"} \cup abs \cup rel :
        abs \in {{}, {"/srv"}, {"/srv", "/srv/in"},
                 {"/srv", "/srv/in", "/srv/in/new"}},
        rel \in {{}, {"in"}}}

UploadInit ==
    /\ remote = [ver |-> 0, size |-> 0]
    /\ record = [size_mb100 |-> 0]
    /\ \E n \in ArtifactSizes \cup {None} :
          /\ localExists = (n # None)
          /\ localData = IF n = None THEN <<>>
                         ELSE Prefix([ver |-> 0, size |-> n], n)
    /\ TransferReset
    /\ listing = <<>>
    /\ GroupReset
    /\ remoteDirs \in DirectoryTrees
    /\ UploadReset
    /\ SshReset

\* The local file is replaced by another one.
LocalChange ==
    /\ pc \in {"up_connect", "up_ensure", "up_put"}
    /\ ~changed
    /\ \E n \in ArtifactSizes :
          localData' = Prefix([ver |-> LocalArtifact(localData).ver + 1,
                               size |-> n], n)
    /\ changed' = TRUE
    /\ UNCHANGED <<remote, record, localExists, op, pc, hasCallback,
                   local_size, remote_size, attempt, rpos, progress, refHeld,
                   result, error, caught, sftpOpen, attempts, startLocal,
                   completion_size, cancelled_at, calls>>
    /\ UNCHANGED uploadVars

\* local_file = Path(local_path); if not local_file.exists(): raise ...;
\* local_size = local_file.stat().st_size
UploadCall ==
    /\ Idle
    /\ \E cb \in BOOLEAN : EnterCall(cb)
    /\ \E path \in RemotePaths : remote_path' = path
    /\ op' = "upload"
    /\ startLocal' = NoFile
    /\ sftpLog' = <<>>
    /\ IF ~localExists
       THEN /\ Raise("local_missing", "none")
            /\ local_size' = 0
       ELSE /\ local_size' = FLen(localData)
            /\ pc' = "up_connect"
            /\ result' = "none"
            /\ error' = NoError
    /\ UNCHANGED <<remoteDirs, remoteFile>>

\* progress = TransferProgress(local_size, ...); try: sftp = get_sftp_client()
UpConnect ==
    /\ pc = "up_connect"
    /\ progress' = NewProgress(local_size)
    /\ \E outcome \in {"no_channel", "ok"} :
          IF outcome = "ok"
          THEN /\ sftpOpen' = sftpOpen + 1
               /\ pc' = "up_ensure"
               /\ UNCHANGED <<result, error, caught>>
          ELSE /\ caught' = "sftp"
               /\ Raise("upload_failed", "sftp")
               /\ UNCHANGED sftpOpen
    /\ UNCHANGED <<remote, record, localExists, localData, op, hasCallback,
                   local_size, remote_size, attempt, rpos, refHeld, attempts,
                   startLocal, changed, completion_size, cancelled_at, calls>>
    /\ UNCHANGED uploadVars

\* remote_dir = os.path.dirname(remote_path); if remote_dir:
\* self._ensure_remote_directory(sftp, remote_dir).  The channel may fail
\* at the first request.
UpEnsure ==
    /\ pc = "up_ensure"
    /\ LET remote_dir == Dirname(remote_path) IN
       IF remote_dir = ""
       THEN /\ pc' = "up_put"
            /\ UNCHANGED <<result, error, caught, remoteDirs, sftpLog>>
       ELSE \E fails \in BOOLEAN :
            LET ensured == _ensure_remote_directory(remoteDirs, remote_dir) IN
            IF fails
            THEN /\ caught' = "sftp"
                 /\ Raise("upload_failed", "sftp")
                 /\ UNCHANGED <<remoteDirs, sftpLog>>
            ELSE /\ remoteDirs' = ensured.dirs
                 /\ sftpLog' = ensured.log
                 /\ IF ensured.raised
                    THEN /\ caught' = "sftp"
                         /\ Raise("upload_failed", "sftp")
                    ELSE /\ pc' = "up_put"
                         /\ UNCHANGED <<result, error, caught>>
    /\ UNCHANGED <<remote, record, localExists, localData, op, hasCallback,
                   local_size, remote_size, attempt, rpos, progress, refHeld,
                   sftpOpen, attempts, startLocal, changed, completion_size,
                   cancelled_at, calls>>
    /\ UNCHANGED <<remote_path, remoteFile>>

\* sftp.put(...): the local file is opened for reading and the remote file
\* for writing, which creates or empties it; that needs its directory.
UpPut ==
    /\ pc = "up_put"
    /\ \E fails \in BOOLEAN :
          IF fails \/ ~DirExists(remoteDirs, Dirname(remote_path))
          THEN /\ caught' = "sftp"
               /\ Raise("upload_failed", "sftp")
               /\ UNCHANGED <<rpos, remoteFile>>
          ELSE /\ remoteFile' = [exists |-> TRUE, data |-> <<>>]
               /\ rpos' = 0
               /\ pc' = "up_stream"
               /\ UNCHANGED <<result, error, caught>>
    /\ UNCHANGED <<remote, record, localExists, localData, op, hasCallback,
                   local_size, remote_size, attempt, progress, refHeld,
                   sftpOpen, attempts, startLocal, changed, completion_size,
                   cancelled_at, calls>>
    /\ UNCHANGED <<remote_path, remoteDirs, sftpLog>>

\* One read of sftp.put: a chunk of the local file is written to the remote
\* file and reported through progress_callback_wrapper, the end of the local
\* file ends the copy, or the channel fails.
UpWrite ==
    /\ pc = "up_stream"
    /\ \E fails \in BOOLEAN :
        LET chunk == ReadChunk(LocalArtifact(localData), rpos) IN
        IF fails
        THEN /\ caught' = "sftp"
             /\ Raise("upload_failed", "sftp")
             /\ UNCHANGED <<rpos, progress, refHeld, remoteFile>>
        ELSE IF chunk = <<>>
        THEN /\ pc' = "up_confirm"
             /\ UNCHANGED <<rpos, progress, refHeld, remoteFile, caught,
                            result, error>>
        ELSE /\ remoteFile' = [remoteFile EXCEPT !.data = Write(@, chunk)]
             /\ rpos' = rpos + FLen(chunk)
             /\ progress' = Update(progress, ProgressDelta(progress, rpos'))
             /\ refHeld' = (refHeld \/ Delivered(progress, hasCallback))
             /\ UNCHANGED <<pc, caught, result, error>>
    /\ UNCHANGED <<remote, record, localExists, localData, op, hasCallback,
                   local_size, remote_size, attempt, sftpOpen, attempts,
                   startLocal, changed, completion_size, cancelled_at, calls>>
    /\ UNCHANGED <<remote_path, remoteDirs, sftpLog>>

\* The end of sftp.put: the size of the remote file is compared with the
\* number of bytes sent; then sftp.close() and return True.
UpConfirm ==
    /\ pc = "up_confirm"
    /\ IF remoteFile.exists /\ FLen(remoteFile.data) = rpos
       THEN /\ sftpOpen' = sftpOpen - 1
            /\ Return
            /\ UNCHANGED caught
       ELSE /\ caught' = "sftp"
            /\ Raise("upload_failed", "sftp")
            /\ UNCHANGED sftpOpen
    /\ UNCHANGED <<remote, record, localExists, localData, op, hasCallback,
                   local_size, remote_size, attempt, rpos, progress, refHeld,
                   attempts, startLocal, changed, completion_size,
                   cancelled_at, calls>>
    /\ UNCHANGED uploadVars

UploadNext ==
    \/ LocalChange /\ UNCHANGED <<groupVars, sshVars>>
    \/ Cancel /\ UNCHANGED <<groupVars, uploadVars, sshVars>>
    \/ UploadCall /\ UNCHANGED <<groupVars, sshVars>>
    \/ UpConnect /\ UNCHANGED <<groupVars, sshVars>>
    \/ UpEnsure /\ UNCHANGED <<groupVars, sshVars>>
    \/ UpPut /\ UNCHANGED <<groupVars, sshVars>>
    \/ UpWrite /\ UNCHANGED <<groupVars, sshVars>>
    \/ UpConfirm /\ UNCHANGED <<groupVars, sshVars>>

UploadSpec == UploadInit /\ [][UploadNext]_vars

\* ------------------------------------------------- the three transfer calls
\* download_backup, resume_download and upload_backup of one TransferManager,
\* called one after the other, with an observer that may cancel; the remote
\* artifact and the local file are replaced by nobody else.
EngineNext ==
    \/ Cancel /\ UNCHANGED <<groupVars, uploadVars, sshVars>>
    \/ DownloadCall /\ UNCHANGED <<groupVars, uploadVars, sshVars>>
    \/ DlSize /\ UNCHANGED <<groupVars, uploadVars, sshVars>>
    \/ DlAttempt /\ UNCHANGED <<groupVars, uploadVars, sshVars>>
    \/ DlRead /\ UNCHANGED <<groupVars, uploadVars, sshVars>>
    \/ DlVerify /\ UNCHANGED <<groupVars, uploadVars, sshVars>>
    \/ DlExcept /\ UNCHANGED <<groupVars, uploadVars, sshVars>>
    \/ DlUnlink /\ UNCHANGED <<groupVars, uploadVars, sshVars>>
    \/ ResumeCall /\ UNCHANGED <<groupVars, uploadVars, sshVars>>
    \/ RsSize /\ UNCHANGED <<groupVars, uploadVars, sshVars>>
    \/ RsOpen /\ UNCHANGED <<groupVars, uploadVars, sshVars>>
    \/ RsRead /\ UNCHANGED <<groupVars, uploadVars, sshVars>>
    \/ RsCheck /\ UNCHANGED <<groupVars, uploadVars, sshVars>>
    \/ RsVerify /\ UNCHANGED <<groupVars, uploadVars, sshVars>>
    \/ UploadCall /\ UNCHANGED <<groupVars, sshVars>>
    \/ UpConnect /\ UNCHANGED <<groupVars, sshVars>>
    \/ UpEnsure /\ UNCHANGED <<groupVars, sshVars>>
    \/ UpPut /\ UNCHANGED <<groupVars, sshVars>>
    \/ UpWrite /\ UNCHANGED <<groupVars, sshVars>>
    \/ UpConfirm /\ UNCHANGED <<groupVars, sshVars>>

EngineSpec == Init /\ [][EngineNext]_vars

\* ------------------------------------------------------- SSHManager's calls
SshInit ==
    /\ remote = [ver |-> 0, size |-> 0]
    /\ record = [size_mb100 |-> 0]
    /\ localExists = FALSE
    /\ localData = <<>>
    /\ TransferReset
    /\ listing = <<>>
    /\ GroupReset
    /\ remoteDirs = {"/"}
    /\ UploadReset
    /\ SshReset

\* A call of connect may open a connection.
MayOpen(hostname, outcome) ==
    (outcome = "ok" /\ ~IsCached(connections, hostname))
        => nextClient < MaxClients

\* SSHManager.connect
Connect ==
    \E hostname \in Hosts, outcome \in ConnectOutcomes :
        LET r == connect(connections, live, nextClient, hostname, outcome) IN
        /\ MayOpen(hostname, outcome)
        /\ connections' = r.connections
        /\ live' = r.live
        /\ nextClient' = r.nextClient
        /\ sshCall' = Call("connect", hostname, r.outcome, r.client, NoRun,
                           "none")
        /\ UNCHANGED ctx

\* SSHManager.disconnect
Disconnect ==
    \E hostname \in Hosts :
        LET r == disconnect(connections, live, hostname) IN
        /\ connections' = r.connections
        /\ live' = r.live
        /\ sshCall' = Call("disconnect", hostname, "ok", None, NoRun, "none")
        /\ UNCHANGED <<nextClient, ctx>>

\* SSHManager.disconnect_all: disconnect for every key of the cache.
DisconnectAll ==
    /\ connections' = [h \in Hosts |->
                          disconnect(connections, live, h).connections[h]]
    /\ live' = {c \in live :
                  \A h \in Hosts : c \in disconnect(connections, live, h).live}
    /\ sshCall' = Call("disconnect_all", "none", "ok", None, NoRun, "none")
    /\ UNCHANGED <<nextClient, ctx>>

\* SSHManager.execute_command: connect, then the command; every exception
\* is raised as SSHConnectionError.
ExecuteCommand ==
    \E hostname \in Hosts, outcome \in ConnectOutcomes, run \in Runs :
        LET r == connect(connections, live, nextClient, hostname, outcome)
            exec == execute_command(r.outcome, run)
        IN  /\ MayOpen(hostname, outcome)
            /\ connections' = r.connections
            /\ live' = r.live
            /\ nextClient' = r.nextClient
            /\ sshCall' = Call("execute_command", hostname,
                               IF exec.raised THEN "error" ELSE "ok",
                               None, Ran(exec), "none")
            /\ UNCHANGED ctx

\* SSHManager.get_sftp_client: connect, then client.open_sftp().
GetSftpClient ==
    \E hostname \in Hosts, outcome \in ConnectOutcomes, fails \in BOOLEAN :
        LET r == connect(connections, live, nextClient, hostname, outcome) IN
        /\ MayOpen(hostname, outcome)
        /\ connections' = r.connections
        /\ live' = r.live
        /\ nextClient' = r.nextClient
        /\ sshCall' = Call("get_sftp_client", hostname,
                           IF r.outcome = "ok" /\ ~fails THEN "ok"
                           ELSE "error",
                           None, NoRun, "none")
        /\ UNCHANGED ctx

\* SSHManager.file_exists: execute_command of the probe, and its exit code.
FileExists ==
    \E hostname \in Hosts, outcome \in ConnectOutcomes, run \in Runs :
        LET r == connect(connections, live, nextClient, hostname, outcome)
            exec == execute_command(r.outcome, run)
            value == file_exists(exec)
        IN  /\ MayOpen(hostname, outcome)
            /\ connections' = r.connections
            /\ live' = r.live
            /\ nextClient' = r.nextClient
            /\ sshCall' = Call("file_exists", hostname,
                               IF value = "raised" THEN "error" ELSE "ok",
                               None, Ran(exec),
                               IF value = "raised" THEN "none" ELSE value)
            /\ UNCHANGED ctx

\* ssh_connection, entering the block: client = self.connect(...); yield
SshConnectionEnter ==
    /\ ctx = NoContext
    /\ \E hostname \in Hosts, outcome \in ConnectOutcomes :
        LET r == connect(connections, live, nextClient, hostname, outcome) IN
        /\ MayOpen(hostname, outcome)
        /\ connections' = r.connections
        /\ live' = r.live
        /\ nextClient' = r.nextClient
        /\ ctx' = IF r.outcome = "ok"
                  THEN [hostname |-> hostname, client |-> r.client]
                  ELSE NoContext
        /\ sshCall' = Call("ssh_connection", hostname, r.outcome, r.client,
                           NoRun, "none")

\* ssh_connection, leaving the block (the body returned or raised):
\* finally: if client and hostname not in self.connections: client.close()
SshConnectionExit ==
    /\ ctx # NoContext
    /\ live' = IF ShouldClose(connections, ctx.hostname)
               THEN {c \in live : c.id # ctx.client}
               ELSE live
    /\ ctx' = NoContext
    /\ sshCall' = Call("ssh_connection_exit", ctx.hostname, "ok", ctx.client,
                       NoRun, "none")
    /\ UNCHANGED <<connections, nextClient>>

\* SSHManager.test_connection: an ssh_connection block around the test
\* command; every exception gives False.
TestConnection ==
    \E hostname \in Hosts, outcome \in ConnectOutcomes, run \in Runs :
        LET r == connect(connections, live, nextClient, hostname, outcome)
            ran == IF r.outcome = "ok" THEN Ran(run) ELSE NoRun
        IN  /\ MayOpen(hostname, outcome)
            /\ connections' = r.connections
            /\ live' = IF r.outcome = "ok"
                          /\ ShouldClose(r.connections, hostname)
                       THEN {c \in r.live : c.id # r.client}
                       ELSE r.live
            /\ nextClient' = r.nextClient
            /\ sshCall' = Call("test_connection", hostname, "ok", r.client,
                               ran, test_connection(r.outcome, run))
            /\ UNCHANGED ctx

SshNext ==
    \/ Connect /\ UNCHANGED <<transferVars, groupVars, uploadVars>>
    \/ Disconnect /\ UNCHANGED <<transferVars, groupVars, uploadVars>>
    \/ DisconnectAll /\ UNCHANGED <<transferVars, groupVars, uploadVars>>
    \/ ExecuteCommand /\ UNCHANGED <<transferVars, groupVars, uploadVars>>
    \/ GetSftpClient /\ UNCHANGED <<transferVars, groupVars, uploadVars>>
    \/ FileExists /\ UNCHANGED <<transferVars, groupVars, uploadVars>>
    \/ SshConnectionEnter /\ UNCHANGED <<transferVars, groupVars, uploadVars>>
    \/ SshConnectionExit /\ UNCHANGED <<transferVars, groupVars, uploadVars>>
    \/ TestConnection /\ UNCHANGED <<transferVars, groupVars, uploadVars>>

SshSpec == SshInit /\ [][SshNext]_vars

\* ----------------------------------------------------------------- claims

\* C1: download_backup never starts more than max_retries transfer attempts,
\* and a call that ends with an error after its attempts failed has made
\* exactly max_retries of them and raises the TransferError of the exhausted
\* loop, which carries the last error caught (channel or verification).
C1_ExactlyMaxRetries ==
    /\ attempts <= max_retries
    /\ (op = "download" /\ pc = "done" /\ result = "error" /\ attempts > 0)
          => /\ attempts = max_retries
             /\ error = [kind |-> "exhausted", cause |-> caught]
             /\ caught \in {"sftp", "verify"}

C1_Witness ==
    /\ op = "download" /\ pc = "done" /\ result = "error"
    /\ attempts = max_retries
    /\ error = [kind |-> "exhausted", cause |-> "verify"]

\* C2: after download_backup has raised because every attempt failed, no
\* file exists at the destination path.
C2_NoPartialFileAfterExhaustion ==
    (op = "download" /\ pc = "done" /\ error.kind = "exhausted")
        => ~localExists

\* C3: during one download_backup call no step lowers progress.transferred.
C3_TransferredNonDecreasing ==
    [][(op = "download" /\ ~Idle)
          => progress'.transferred >= progress.transferred]_vars

\* C4: when the local file holds the first k bytes of the remote artifact,
\* 0 < k < N, and the artifact is not replaced during the call, then
\* resume_download keeps the local file a prefix of the artifact at every
\* step, and unless the size query or the channel fails or the transfer is
\* cancelled it returns with the local file equal to the artifact, byte for
\* byte; a download_backup that transferred the same artifact returns with
\* the same file.
C4_ResumeEqualsFreshDownload ==
    /\ (/\ op = "resume"
        /\ ~changed
        /\ 0 < FLen(startLocal.data)
        /\ FLen(startLocal.data) < remote.size
        /\ IsPrefixOf(startLocal.data, remote))
          => /\ IsPrefixOf(localData, remote)
             /\ IsPrefixOf(startLocal.data, [ver |-> remote.ver,
                                               size |-> FLen(localData)])
             /\ (/\ pc = "done"
                 /\ error.kind # "size_unavailable"
                 /\ error.cause \notin {"io", "cancelled"})
                   => /\ result = "ok"
                      /\ localData = RemoteData(remote)
    /\ (op = "download" /\ pc = "done" /\ result = "ok" /\ attempts > 0
           /\ ~changed)
          => localData = RemoteData(remote)

C4_Witness ==
    /\ op = "resume" /\ pc = "done" /\ result = "ok" /\ ~changed
    /\ remote.size = 70000
    /\ startLocal.data = Prefix(remote, 40000)
    /\ localData = RemoteData(remote)

\* C5: when the local file already holds the whole artifact after a
\* successful download and the record lists the artifact's size, a further
\* download_backup call returns at once: it never reaches the size query.
C5_SecondDownloadShortCircuits ==
    [][(/\ pc = "done" /\ op = "download" /\ result = "ok"
        /\ localExists
        /\ localData = RemoteData(remote)
        /\ record.size_mb100 = SizeMb100(remote.size)
        /\ calls' = calls + 1
        /\ op' = "download")
          => (pc' = "done" /\ result' = "ok")]_vars

\* C6: download_backup returns a path after a transfer only if the local
\* file exists with the size recorded by the size query and the remote
\* artifact had that size when the transfer ended; a transfer that ended
\* with the artifact at another size fails verification and goes to the
\* retry branch.
C6_ReturnOnlyVerified ==
    /\ []((op = "download" /\ pc = "done" /\ result = "ok" /\ attempts > 0)
            => /\ localExists
               /\ FLen(localData) = remote_size
               /\ completion_size = remote_size)
    /\ [][(pc = "dl_verify" /\ completion_size # remote_size)
            => \/ pc' = "dl_verify"
               \/ pc' = "dl_except" /\ caught' = "verify"]_vars

C6_Witness ==
    /\ op = "download" /\ pc = "dl_attempt" /\ attempt = 1
    /\ caught = "verify"
    /\ completion_size # remote_size

\* C7: resume_download with a local file larger than the remote artifact
\* raises TransferError at the size comparison: no transfer attempt is
\* started (no channel, no retry) and the local file is as it was.
C7_LargerLocalRejected ==
    (op = "resume" /\ remote_size # None /\ local_size > remote_size)
        => /\ pc = "done"
           /\ result = "error"
           /\ error.kind = "local_larger"
           /\ attempts = 0
           /\ localExists
           /\ localData = startLocal.data

C7_Witness ==
    /\ op = "resume" /\ pc = "done" /\ error.kind = "local_larger"
    /\ local_size > remote_size
    /\ remote_size # None

\* C8 (as stated): in resume_download, once cancel() has been called no
\* further chunk is appended to the local file and the call ends with
\* TransferError.
C8_CancelStopsResume ==
    [][(op = "resume" /\ ~Idle /\ progress.cancelled)
          => /\ localData' = localData
             /\ (pc' = "done" => result' = "error")]_vars

\* C8 (amended): the flag is checked after each chunk is written.  Once
\* cancel() has been called at most one further chunk, the one in flight, is
\* appended; the check that follows it ends the call with TransferError,
\* and the call returns a path only if the read in flight found the end of
\* the file, the local file then being complete.  The local file stays on
\* disk, and it is a prefix of the remote artifact when it was one at the
\* start and the artifact was not replaced.
C8_CancelObservedAfterChunk ==
    (op = "resume" /\ cancelled_at # None)
        => /\ localExists
           /\ FLen(localData) <= cancelled_at + chunk_size
           /\ (pc = "rs_read" => FLen(localData) = cancelled_at)
           /\ (pc = "done" /\ result = "ok"
                  => FLen(localData) = remote_size)
           /\ (pc = "done" /\ result = "error"
                  => error.kind = "resume_failed")
           /\ (pc = "done" /\ FLen(localData) > cancelled_at
                  /\ FLen(localData) < remote_size
                  => error.cause = "cancelled")
           /\ (~changed /\ IsPrefixOf(startLocal.data, remote)
                  => IsPrefixOf(localData, remote))

C8_Witness ==
    /\ op = "resume" /\ pc = "done" /\ result = "error"
    /\ error.cause = "cancelled"
    /\ FLen(localData) = cancelled_at + chunk_size
    /\ FLen(localData) < remote.size
    /\ IsPrefixOf(localData, remote)

\* C9: once the cancellation flag is set during download_backup, at most the
\* chunk in flight is still written: the call does not return a path with
\* more than one further chunk in the local file.
C9_CancelStopsDownload ==
    (/\ op = "download" /\ pc = "done"
     /\ cancelled_at # None
     /\ FLen(localData) > cancelled_at + chunk_size)
        => result # "ok"

\* C10: a resume_download that fails with a channel error or a verification
\* failure has made max_retries attempts before the caller sees the error.
C10_ResumeRetries ==
    (op = "resume" /\ pc = "done" /\ result = "error"
       /\ error.cause \in {"io", "verify"})
        => attempts = max_retries

\* C11: when the remote size query fails (non-zero exit, non-numeric output
\* or an executor error: remote_size is None) download_backup and
\* resume_download raise TransferError at once: the call is over with the
\* size-unavailable error, no transfer attempt was started, the retry loop
\* was not entered, no channel was opened, and the step of the query and
\* the steps before it leave the local file as it was.
C11_SizeUnavailableRaisesAtOnce ==
    /\ []((remote_size = None /\ pc \notin {"idle", "dl_size", "rs_size"}
             /\ result # "ok")
            => /\ pc = "done"
               /\ result = "error"
               /\ error = [kind |-> "size_unavailable", cause |-> "none"]
               /\ attempts = 0
               /\ attempt = 0)
    /\ [][(pc' \in {"dl_size", "rs_size"}
             \/ (pc \in {"dl_size", "rs_size"} /\ remote_size' = None))
            => /\ localExists' = localExists
               /\ localData' = localData
               /\ sftpOpen' = sftpOpen]_vars

C11_Witness ==
    /\ op = "resume" /\ pc = "done" /\ remote_size = None
    /\ error.kind = "size_unavailable"
    /\ localExists /\ FLen(localData) = 40000
    /\ attempts = 0

\* C12: grouping drops no record: after list_backup_sets or
\* get_local_backup_sets has returned, every record of its input is a member
\* of one of the sets, and a record whose filename does not start with a
\* timestamp is the only member of a set keyed by its filename.
C12_GroupingDropsNoRecord ==
    (gop \in {"list_backup_sets", "get_local_backup_sets"} /\ gresult = "ok")
        => LET input == IF gop = "list_backup_sets" THEN listing
                        ELSE local_backups
           IN  \A i \in 1..Len(input) :
                 \E k \in 1..Len(backup_sets) :
                    /\ \E j \in 1..Len(backup_sets[k].files) :
                          backup_sets[k].files[j].filename = input[i].filename
                    /\ ~TimestampMatch(input[i].filename)
                          => /\ backup_sets[k].timestamp = input[i].filename
                             /\ Len(backup_sets[k].files) = 1

\* C13: the backup_type of every set returned by list_backup_sets and by
\* get_local_backup_sets is 'complete' when its members include a record of
\* type database and a record of a files type, 'database' with a database
\* record and no files record, 'files' with a files record and no database
\* record, 'mixed' otherwise; and the set whose members are
\* 20250101_000000_database.sql.gz and 20250101_000000_public.tar is
\* 'complete'.
C13_SetTypeFromMembers ==
    (gop \in {"list_backup_sets", "get_local_backup_sets"} /\ gresult = "ok")
        => \A k \in 1..Len(backup_sets) :
             LET files == backup_sets[k].files
                 db == \E j \in 1..Len(files) :
                          files[j].backup_type = "database"
                 fl == \E j \in 1..Len(files) :
                          files[j].backup_type \in {"files", "private_files"}
             IN  /\ backup_sets[k].backup_type =
                       IF db /\ fl THEN "complete"
                       ELSE IF db THEN "database"
                       ELSE IF fl THEN "files"
                       ELSE "mixed"
                 /\ {files[j].filename : j \in 1..Len(files)} =
                       {"20250101_000000_database.sql.gz",
                        "20250101_000000_public.tar"}
                       => backup_sets[k].backup_type = "complete"

\* C14: in the result of list_backup_sets and of get_local_backup_sets no set
\* has an empty files list, no record is a member twice (of two sets or of
\* one), and two records whose filenames start with a timestamp are members
\* of one set exactly when the first 15 characters of their filenames are
\* equal.
C14_SetsPartitionByTimestamp ==
    (gop \in {"list_backup_sets", "get_local_backup_sets"} /\ gresult = "ok")
        => LET input == IF gop = "list_backup_sets" THEN listing
                        ELSE local_backups
               names(k) == {backup_sets[k].files[j].filename :
                               j \in 1..Len(backup_sets[k].files)}
           IN  /\ \A k \in 1..Len(backup_sets) :
                     /\ Len(backup_sets[k].files) >= 1
                     /\ Cardinality(names(k)) = Len(backup_sets[k].files)
               /\ \A k1, k2 \in 1..Len(backup_sets) :
                     k1 # k2 => names(k1) \cap names(k2) = {}
               /\ \A i, j \in 1..Len(input) :
                     (TimestampMatch(input[i].filename)
                         /\ TimestampMatch(input[j].filename))
                       => ((\E k \in 1..Len(backup_sets) :
                               {input[i].filename, input[j].filename}
                                   \subseteq names(k))
                           <=> SubSeq(input[i].filename, 1, 15)
                                 = SubSeq(input[j].filename, 1, 15))

C14_Witness ==
    /\ gop = "list_backup_sets" /\ gresult = "ok"
    /\ Len(listing) = 3
    /\ Len(backup_sets) = 2
    /\ \E k \in 1..2 : /\ Len(backup_sets[k].files) = 2
                       /\ backup_sets[k].timestamp = "20250101_000000"
    /\ \E k \in 1..2 : backup_sets[k].timestamp = "20250101_120000"

\* C15: for every permutation of the input, list_backup_sets and
\* get_local_backup_sets yield the same mapping from timestamp to the set of
\* member filenames as for the input itself; and in the list that
\* list_backup_sets returns for any permutation, a set never comes before a
\* set with a later created_at, so only the order among sets with equal
\* created_at depends on the order of the input.
C15_GroupingPermutationInvariant ==
    (gop \in {"list_backup_sets", "get_local_backup_sets"} /\ gresult = "ok")
        => LET backups ==
                   IF gop = "list_backup_sets"
                   THEN [i \in 1..Len(listing) |->
                            RemoteBackupInfo(listing[i])]
                   ELSE [i \in 1..Len(local_backups) |->
                            LocalBackupInfo(local_backups[i])]
               out(l) == IF gop = "list_backup_sets"
                         THEN list_backup_sets(l)
                         ELSE LocalBackupSets(l)
               mapping(sets) ==
                   {[timestamp |-> sets[k].timestamp,
                     members |-> {sets[k].files[j].filename :
                                     j \in 1..Len(sets[k].files)}] :
                       k \in 1..Len(sets)}
               returned == mapping(backup_sets)
           IN  /\ backup_sets = out(backups)
               /\ \A p \in Permutations(1..Len(backups)) :
                     LET sets == out([i \in 1..Len(backups) |-> backups[p[i]]])
                     IN  /\ mapping(sets) = returned
                         /\ gop = "list_backup_sets"
                               => \A a, b \in 1..Len(sets) :
                                     a < b => sets[a].created_at
                                                >= sets[b].created_at

C15_Witness ==
    /\ gop = "get_local_backup_sets" /\ gresult = "ok"
    /\ Len(local_backups) = 3
    /\ Len(backup_sets) = 2
    /\ backup_sets[1].created_at < backup_sets[2].created_at
    /\ Len(backup_sets[2].files) = 2

\* C16: a scan of the local storage directory is not aborted by one entry:
\* get_local_backups and get_local_backup_sets return, and every regular
\* file of the directory that can be read is in the result.
C16_ScanSkipsBadEntry ==
    (gop \in {"get_local_backups", "get_local_backup_sets"})
        => /\ gresult = "ok"
           /\ \A i \in 1..Len(listing) :
                 listing[i].kind = "file"
                    => \E j \in 1..Len(local_backups) :
                          local_backups[j].filename = listing[i].filename

\* C17: upload_backup returns True only if the remote file then has the size
\* of the local file that was measured before the transfer.
C17_UploadSuccessOnlyIfSizesMatch ==
    (op = "upload" /\ pc = "done" /\ result = "ok")
        => /\ remoteFile.exists
           /\ FLen(remoteFile.data) = local_size

\* C18: while upload_backup writes the remote file every directory on the
\* path to it exists; and _ensure_remote_directory asks mkdir only for a
\* directory that does not exist and whose parent exists by then (it was
\* there or was made earlier), makes exactly the missing directories of the
\* path when it succeeds, probes only directories of the path, and when the
\* directory of the file exists its only request is the probe of that
\* directory.
C18_EnsureCreatesMissingParentsFirst ==
    /\ [](pc \in {"up_stream", "up_confirm"}
            => LET remote_dir == Dirname(remote_path) IN
               \A k \in 1..Len(remote_dir) :
                  (k = Len(remote_dir) \/ CharAt(remote_dir, k + 1) = "/")
                     => SubSeq(remote_dir, 1, k) \in remoteDirs)
    /\ [][(pc = "up_ensure" /\ pc' # pc)
            => LET remote_dir == Dirname(remote_path)
                   onPath == {SubSeq(remote_dir, 1, k) : k \in
                                {j \in 1..Len(remote_dir) :
                                    \/ j = Len(remote_dir)
                                    \/ CharAt(remote_dir, j + 1) = "/"}}
                   made(i) == {sftpLog'[j].path : j \in
                                 {m \in 1..(i - 1) : sftpLog'[m].op = "mkdir"}}
               IN  /\ \A i \in 1..Len(sftpLog') :
                         /\ sftpLog'[i].path \in onPath \cup {"/"}
                         /\ sftpLog'[i].op = "mkdir"
                              => /\ sftpLog'[i].path \notin remoteDirs
                                 /\ sftpLog'[i].path \notin made(i)
                                 /\ DirExists(remoteDirs \cup made(i),
                                              Dirname(sftpLog'[i].path))
                   /\ pc' = "up_put"
                         => /\ remoteDirs' = remoteDirs \cup onPath
                            /\ made(Len(sftpLog') + 1) = onPath \ remoteDirs
                   /\ (remote_dir \in remoteDirs /\ sftpLog' # <<>>)
                         => sftpLog' = <<[op |-> "stat",
                                          path |-> remote_dir]>>]_vars

C18_Witness ==
    /\ op = "upload" /\ pc = "up_stream"
    /\ remote_path = "/srv/in/new/backup.tar"
    /\ Len(sftpLog) = 5
    /\ sftpLog[1] = [op |-> "stat", path |-> "/srv/in/new"]
    /\ sftpLog[2] = [op |-> "stat", path |-> "/srv/in"]
    /\ sftpLog[3] = [op |-> "stat", path |-> "/srv"]
    /\ sftpLog[4] = [op |-> "mkdir", path |-> "/srv/in"]
    /\ sftpLog[5] = [op |-> "mkdir", path |-> "/srv/in/new"]
    /\ {"/srv", "/srv/in", "/srv/in/new"} \subseteq remoteDirs

\* C20: in download_backup and resume_download every chunk that is written
\* is reported to the observer callback, and after the first report every
\* report shows a cumulative transferred value greater than the one before.
C20_EveryChunkReportedIncreasing ==
    [][(/\ op \in {"download", "resume"}
        /\ hasCallback
        /\ pc \in {"dl_stream", "rs_read"}
        /\ localData' # localData)
          => /\ Delivered(progress, hasCallback)
             /\ refHeld => progress'.transferred > progress.transferred]_vars

\* C19: SSHManager holds at most one open connection per host identifier
\* after any sequence of connect, execute_command, get_sftp_client,
\* disconnect and disconnect_all calls: the cache is empty before the first
\* call, every open connection is the cached client of its host, connect on
\* a host that is not cached opens exactly one connection, caches and
\* returns it, and connect on a cached host returns the cached client and
\* opens none.
C19_OneConnectionPerHost ==
    /\ [](/\ \A h \in Hosts :
               Cardinality({c \in live : c.host = h}) <= 1
          /\ \A c \in live : connections[c.host] = c.id
          /\ sshCall.fn = "none"
                => (live = {} /\ \A h \in Hosts : connections[h] = None))
    /\ [][sshCall'.fn = "connect"
            => LET h == sshCall'.hostname IN
               IF connections[h] # None
               THEN /\ sshCall'.outcome = "ok"
                    /\ sshCall'.client = connections[h]
                    /\ live' = live
                    /\ connections' = connections
               ELSE sshCall'.outcome = "ok"
                      => /\ Cardinality(live') = Cardinality(live) + 1
                         /\ live \subseteq live'
                         /\ \E c \in live' \ live :
                               /\ c.host = h
                               /\ c.id = sshCall'.client
                               /\ connections' =
                                     [connections EXCEPT ![h] = c.id]]_vars

C19_Witness ==
    /\ sshCall.fn = "connect" /\ sshCall.outcome = "ok"
    /\ nextClient = 3
    /\ Cardinality(live) = 2
    /\ sshCall.client = connections[sshCall.hostname]
    /\ sshCall.client < nextClient

\* C21: a resume_download that stops because the cancellation flag was seen
\* ends with an error whose kind differs from the kind of retry exhaustion
\* and from the kind of every other failure of a transfer: the errors of
\* download_backup, the size that cannot be determined, the larger local
\* file, and the error resume_download raises for a channel error or a
\* failed verification.
C21_CancelledKindDistinct ==
    (op = "resume" /\ pc = "done" /\ result = "error"
       /\ caught = "cancelled")
        => error.kind \notin {"exhausted", "download_failed",
                              "size_unavailable", "local_larger",
                              "resume_failed"}

\* C22: file_exists never raises; it returns True exactly when the probe
\* command ran and exited with code 0, and False when it exited with another
\* code and when executing it failed (no connection, or the command raised).
C22_FileExistsIffProbeExitsZero ==
    sshCall.fn = "file_exists"
        => /\ sshCall.outcome = "ok"
           /\ sshCall.value \in {"True", "False"}
           /\ sshCall.value = "True"
                 <=> (sshCall.exec = "exited" /\ sshCall.exit_code = 0)

C22_Witness ==
    /\ sshCall.fn = "file_exists"
    /\ connections[sshCall.hostname] # None
    /\ sshCall.exec = "raised"
    /\ sshCall.value = "False"

\* C23: every error a caller of download_backup, resume_download or
\* upload_backup receives is a TransferError raised by the engine; an
\* exception of the file channel (caught while a channel is opened or a
\* chunk is read or written) reaches the caller only as the cause inside
\* such a TransferError, after the attempts of download_backup are used up.
C23_OnlyTransferErrorReachesCaller ==
    (pc = "done" /\ result = "error")
        => /\ error.kind \in
                 CASE op = "download" ->
                        {"size_unavailable", "exhausted", "download_failed"}
                   [] op = "resume" ->
                        {"size_unavailable", "local_larger", "resume_failed"}
                   [] op = "upload" -> {"local_missing", "upload_failed"}
           /\ caught \in {"sftp", "io"}
                 => /\ error.cause = caught
                    /\ error.kind \in {"exhausted", "resume_failed",
                                       "upload_failed"}
                    /\ op = "download" => attempts = max_retries

C23_Witness ==
    /\ op = "upload" /\ pc = "done" /\ result = "error"
    /\ calls = 2
    /\ caught = "sftp"
    /\ rpos = chunk_size
    /\ error = [kind |-> "upload_failed", cause |-> "sftp"]

\* C24: in resume_download of a local file of size L smaller than the remote
\* size, the first update the observer receives shows transferred = L, and
\* at that moment no byte has been added to the local file.
C24_FirstResumeUpdateShowsLocalSize ==
    [][(op = "resume" /\ ~Idle /\ hasCallback /\ ~refHeld /\ refHeld')
          => /\ progress'.transferred = local_size
             /\ localData' = startLocal.data]_vars

\* C25: after a failed attempt of download_backup that is not the last, the
\* partial file is deleted before the backoff wait: while the call waits
\* (the except clause has decided to retry and the next attempt has not
\* started) no file exists at the destination path, and every retry starts
\* with the file absent.
C25_DeleteBeforeBackoff ==
    /\ [](pc = "dl_unlink" => ~localExists)
    /\ [][(pc' = "dl_attempt" /\ attempt' > 0) => ~localExists']_vars

\* C26: get_backup_set_files returns for every record (it does not raise
\* whatever the filename looks like), the list it returns is not empty, and
\* for a record whose filename does not start with a timestamp, or has no
\* '-' after it, the list holds that record alone.
C26_SetFilesDegradeToSingleton ==
    gop = "get_backup_set_files"
        => /\ gresult = "ok"
           /\ Len(related_backups) >= 1
           /\ (\/ ~TimestampMatch(backup_info.filename)
               \/ ~Contains(backup_info.filename, "-"))
                 => related_backups = <<backup_info>>

\* C27: every SFTP channel download_backup, resume_download or upload_backup
\* opens is closed when the operation returns or raises: between calls no
\* channel opened by the engine is open.
C27_NoChannelLeftOpen ==
    Idle => sftpOpen = 0

\* C28: cleanup_local_backups(n) on a directory that holds m regular files
\* removes no file when m <= n, and otherwise leaves exactly n of them, each
\* at least as new as every file it removed.
C28_CleanupKeepsNewest ==
    [][gop' = "cleanup_local_backups"
          => LET regular(l) == {l[i] : i \in {j \in 1..Len(l) :
                                                 l[j].kind # "dir"}}
                 before == regular(listing)
                 after == regular(listing')
                 n == keep_latest'
             IN  /\ after \subseteq before
                 /\ Cardinality(before) <= n => listing' = listing
                 /\ Cardinality(before) > n
                       => /\ Cardinality(after) = n
                          /\ \A a \in after, r \in before \ after :
                                a.created_at >= r.created_at]_vars

\* C29: a connect call that raises SSHConnectionError leaves the cache and
\* the open connections as they were, with no entry for its host; and the
\* next connect to that host, when it succeeds, opens a connection that was
\* not open before and caches it.
C29_FailedConnectLeavesCache ==
    /\ [][(sshCall'.fn = "connect" /\ sshCall'.outcome = "error")
            => /\ connections' = connections
               /\ live' = live
               /\ connections'[sshCall'.hostname] = None]_vars
    /\ [][(/\ sshCall.fn = "connect" /\ sshCall.outcome = "error"
           /\ sshCall'.fn = "connect" /\ sshCall'.outcome = "ok"
           /\ sshCall'.hostname = sshCall.hostname)
            => /\ \A c \in live : c.id # sshCall'.client
               /\ [id |-> sshCall'.client, host |-> sshCall'.hostname]
                     \in live'
               /\ connections'[sshCall'.hostname] = sshCall'.client]_vars

C29_Witness ==
    /\ sshCall.fn = "connect" /\ sshCall.outcome = "error"
    /\ connections[sshCall.hostname] = None
    /\ \E h \in Hosts : connections[h] # None
    /\ Cardinality(live) = 1
    /\ nextClient = 2

\* C30: a connection that is in the cache is open; leaving an ssh_connection
\* block closes no connection and changes no entry of the cache, so a block
\* entered with a successful connect and left with its host still cached
\* leaves that connection open and cached; after test_connection returned
\* True the connection of its host is open and cached; and a connection is
\* closed only by disconnect or disconnect_all, which remove its entry.
C30_ContextKeepsCachedConnection ==
    /\ [](\A h \in Hosts :
             connections[h] # None
                => [id |-> connections[h], host |-> h] \in live)
    /\ [][sshCall'.fn = "ssh_connection_exit"
            => /\ live' = live
               /\ connections' = connections]_vars
    /\ [][(sshCall'.fn = "test_connection" /\ sshCall'.value = "True")
            => LET h == sshCall'.hostname IN
               /\ connections'[h] # None
               /\ [id |-> connections'[h], host |-> h] \in live']_vars
    /\ [][live \ live' # {}
            => /\ sshCall'.fn \in {"disconnect", "disconnect_all"}
               /\ \A c \in live \ live' : connections'[c.host] = None]_vars

C30_Witness ==
    /\ sshCall.fn = "ssh_connection_exit"
    /\ ctx = NoContext
    /\ connections[sshCall.hostname] = sshCall.client
    /\ [id |-> sshCall.client, host |-> sshCall.hostname] \in live

====
